---- MODULE Spec2Model ----
(***************************************************************************)
(* NTRIP Checker PRO (ntrip_checker_pro_v5_2.py): the NTRIPClient thread   *)
(* (run / stop), the supervisor operations of NTRIPCheckerPro that create, *)
(* stop and replace clients, and the on_data decode pass.                   *)
(*                                                                         *)
(* One NTRIPClient instance is a connection id c in Conns.  Its run()      *)
(* method is cut at the statements that touch state another thread reads   *)
(* or writes (running, user_stopped, stop_event, socket, buffer) or that   *)
(* emit a signal; pc[c] is the position of its thread.  All supervisor     *)
(* operations and on_data run on the single GUI thread, whose position is  *)
(* gui.pc; stop() is cut at each of its statements.                        *)
(***************************************************************************)
EXTENDS Integers, Sequences, FiniteSets, TLC

\* ---------------------------------------------------------------- bounds
MaxConns   == 3     \* NTRIPClient instances that can be created
MaxChunk   == 2     \* most bytes returned by one recv (the code asks for 4096)

\* ------------------------------------------------------ program constants
MaxRetries == 3     \* "reconnect_attempts <= 3"
Preamble   == 211   \* 0xD3, first byte of an RTCM3 frame

Names == {"A", "B"}
Conns == 1..MaxConns
NoConn == 0

VARIABLES
    casters,     \* self.casters: list of configured caster names
    clients,     \* self.clients: name -> NTRIPClient (NoConn: no entry)
    start_times, \* self.start_times: name -> creation tick (0: no entry)
    rtcm_stats,  \* self.rtcm_stats: name -> identity -> count
    satellite_stats, \* self.satellite_stats: name -> constellation -> PRNs
    signal_stats,    \* self.signal_stats: name -> constellation -> signals
    gui,         \* position and locals of the GUI thread
    notes,       \* queued data_signal deliveries per caster name
    nconn,       \* NTRIPClient instances created so far
    conn,        \* fields of each NTRIPClient instance
    pc,          \* position of each NTRIPClient thread in run()
    stream,      \* bytes the caster sends on a mountpoint
    env,         \* what the environment may still do: failures to inject,
                 \* handlers the user may still invoke, instances to create,
                 \* and the sizes of the reads the network delivers
    hist,        \* history of each instance (events emitted, bytes appended)
    decoded,     \* history of each name: frames yielded by the decode passes
                 \* per identity since its stats were last discarded
    yielded      \* history of each name: the messages with an identity that
                 \* the decode passes have yielded

StatVars == <<rtcm_stats, satellite_stats, signal_stats>>
Ghost == <<decoded, yielded>>

vars == <<casters, clients, start_times, StatVars, gui, notes, nconn, conn,
          pc, stream, env, hist, Ghost>>

\* --------------------------------------------------------------- helpers
Min(a, b) == IF a < b THEN a ELSE b

RECURSIVE Sum(_)
Sum(s) == IF s = <<>> THEN 0 ELSE Head(s) + Sum(Tail(s))

Drop(s, n) == SubSeq(s, n + 1, Len(s))
Take(s, n) == SubSeq(s, 1, n)

IsPrefix(p, s) == Len(p) <= Len(s) /\ Take(s, Len(p)) = p

RECURSIVE SeqContains(_, _)
SeqContains(s, x) ==
    IF s = <<>> THEN FALSE
    ELSE IF Head(s) = x THEN TRUE ELSE SeqContains(Tail(s), x)

RECURSIVE CountOf(_, _)
CountOf(s, x) ==
    IF s = <<>> THEN 0
    ELSE (IF Head(s) = x THEN 1 ELSE 0) + CountOf(Tail(s), x)

\* ------------------------------------------------------------ RTCM frames
\* A frame on the wire: preamble, payload length, payload, checksum.  The
\* message identity is carried by the first payload element; an empty
\* payload has no identity.
Ids == {1074, 1084}
NoId == 0

Crc(payload) == (Sum(payload) + Len(payload) + 1) % 256

Frame(payload) == <<Preamble, Len(payload)>> \o payload \o <<Crc(payload)>>
BadFrame(payload) ==
    <<Preamble, Len(payload)>> \o payload \o <<(Crc(payload) + 1) % 256>>

Identity(payload) == IF payload = <<>> THEN NoId ELSE payload[1]

\* "for i in range(1, width + 1): if mask & (1 << (i - 1))": the i in
\* 1..width for which bit i-1 of mask is set, taken from bit i-1 upwards
RECURSIVE BitsFrom(_, _, _)
BitsFrom(mask, i, width) ==
    IF mask = 0 \/ i > width THEN {}
    ELSE (IF mask % 2 = 1 THEN {i} ELSE {})
             \cup BitsFrom(mask \div 2, i + 1, width)

\* the loop taking bit i for the number i
BitsOf_fromZero(mask, width) == BitsFrom(mask, 0, width - 1)

BitsOf(mask, width) == BitsFrom(mask, 1, width)

RECURSIVE Ascending(_)
Ascending(S) ==
    IF S = {} THEN <<>>
    ELSE LET m == CHOOSE x \in S : \A y \in S : x <= y
         IN  <<m>> \o Ascending(S \ {m})

IsMSM(msg_num) == 1071 <= msg_num /\ msg_num <= 1127

\* The message RTCMReader yields for a payload.  The payload of an MSM
\* message carries, after the identity, the satellite mask DF394 and the
\* signal mask DF395; the reader derives NSat, NSig and the PRN_nn fields
\* from the masks.  An attribute the message does not have is 0 (<<>> for
\* the PRN fields).
Parse(payload) ==
    LET id  == Identity(payload)
        sat == IF IsMSM(id) /\ Len(payload) >= 2 THEN payload[2] ELSE 0
        sig == IF IsMSM(id) /\ Len(payload) >= 3 THEN payload[3] ELSE 0
    IN  [identity |-> id,
         NSat |-> Cardinality(BitsOf(sat, 64)),
         PRN |-> Ascending(BitsOf(sat, 64)),
         NSig |-> Cardinality(BitsOf(sig, 32)),
         DF394 |-> sat,
         DF395 |-> sig]

\* The iteration "for _, parsed in RTCMReader(stream)" over io.BytesIO(buf),
\* from stream position pos, with the messages yielded so far in out.  The
\* reader takes one byte, skips it unless it is the preamble, then takes the
\* length, the payload and the checksum; a read that finds fewer bytes than
\* asked for returns what is left (the position moves to the end) and ends
\* the iteration.  A checksum mismatch is raised to the caller when
\* raises is TRUE and skipped otherwise.
StreamRead(buf, pos, n) == Min(pos + n, Len(buf))

Yielded(out, pos, exc) ==
    [msgs |-> out, ids |-> [i \in 1..Len(out) |-> out[i].identity],
     tell |-> pos, raised |-> exc]

RECURSIVE RTCMReader(_, _, _, _)
RTCMReader(buf, pos, out, raises) ==
    IF pos >= Len(buf)
    THEN Yielded(out, StreamRead(buf, pos, 1), FALSE)
    ELSE IF buf[pos + 1] # Preamble
    THEN RTCMReader(buf, StreamRead(buf, pos, 1), out, raises)
    ELSE IF pos + 2 > Len(buf)
    THEN Yielded(out, StreamRead(buf, pos + 1, 1), FALSE)
    ELSE LET n    == buf[pos + 2]
             body == pos + 2
             end  == body + n + 1
         IN  IF end > Len(buf)
             THEN Yielded(out, StreamRead(buf, body, n + 1), FALSE)
             ELSE LET payload == SubSeq(buf, body + 1, body + n)
                  IN  IF buf[end] # Crc(payload)
                      THEN IF raises
                           THEN Yielded(out, end, TRUE)
                           ELSE RTCMReader(buf, end, out, raises)
                      ELSE RTCMReader(buf, end,
                                      Append(out, Parse(payload)), raises)

\* ------------------------------------------------ extract_satellite_info
Constellations == {"GPS", "GLONASS", "Galileo", "BeiDou", "QZSS", "SBAS"}

NoSets == [k \in Constellations |-> {}]

\* lines 63-70: signal_map
signal_map ==
    [GPS |-> <<"L1 C/A", "L1 P(Y)", "L1 M", "L2 P(Y)", "L2 C", "L2 M",
               "L5 I", "L5 Q">>,
     GLONASS |-> <<"G1 C/A", "G1 P", "G2 C/A", "G2 P", "G3 I", "G3 Q">>,
     Galileo |-> <<"E1 C", "E1 A", "E1 B", "E5a I", "E5a Q", "E5b I",
                   "E5b Q", "E6 C">>,
     BeiDou |-> <<"B1 I", "B1 Q", "B2 I", "B2 Q", "B3 I", "B3 Q">>,
     QZSS |-> <<"L1 C/A", "L1 S", "", "L2 C", "L2 L", "", "L5 I", "L5 Q",
                "L6 I", "L6 Q">>,
     SBAS |-> <<"L1 C/A", "", "", "", "", "", "L5 I", "L5 Q">>]

\* line 110: signal_map[constellation].get(sig_id, f'Signal {sig_id}')
SignalName(constellation, sig_id) ==
    LET names == signal_map[constellation]
    IN  IF sig_id <= Len(names) /\ names[sig_id] # ""
        THEN names[sig_id]
        ELSE "Signal " \o ToString(sig_id)

\* the map with SBAS and BeiDou exchanged
constellation_map_swapped ==
    <<"GPS", "GLONASS", "Galileo", "BeiDou", "QZSS", "SBAS">>

\* lines 83-90: constellation_map
constellation_map ==
    <<"GPS", "GLONASS", "Galileo", "SBAS", "QZSS", "BeiDou">>

\* lines 41-124
extract_satellite_info(parsed) ==
    IF ~IsMSM(parsed.identity)
    THEN [satellites |-> NoSets, signals |-> NoSets]
    ELSE LET constellation ==
                 constellation_map[(parsed.identity - 1071) \div 10 + 1]
             prns == {parsed.PRN[i] :
                         i \in 1..Min(parsed.NSat, Len(parsed.PRN))}
             byField == {prn \in prns : prn > 0}
             byMask == IF parsed.DF394 > 0
                       THEN BitsOf(parsed.DF394, 64) ELSE {}
             sigs == IF parsed.NSig > 0 /\ parsed.DF395 # 0
                     THEN {SignalName(constellation, sig_id) :
                              sig_id \in BitsOf(parsed.DF395, 32)}
                     ELSE {}
         IN  [satellites |-> [NoSets EXCEPT ![constellation] =
                                 IF byField # {} THEN byField ELSE byMask],
              signals |-> [NoSets EXCEPT ![constellation] = sigs]]

\* ------------------------------------------------------- NTRIPClient.run
NewConn(n) ==
    [name |-> n, running |-> FALSE, total_bytes |-> 0, socket |-> "none",
     reconnect_attempts |-> 0, stop_event |-> FALSE, buffer |-> <<>>,
     user_stopped |-> FALSE,
     sOpen |-> FALSE,      \* the local socket s of the current attempt is open
     header |-> <<>>,      \* the bytes returned by s.recv(1024)
     err |-> {},           \* the keywords in the text of the exception
     brk |-> FALSE]        \* the try block was left by break

NewHist ==
    [attempts |-> 0,   \* sockets opened (connect attempts)
     fails |-> 0,      \* attempts that ended in an exception before streaming
     rejects |-> 0,    \* attempts whose header was rejected at line 298
     nOK |-> 0,        \* "Connection OK" statuses
     nErr |-> 0,       \* error statuses
     nRec |-> 0,       \* "Reconnecting (k/3)" statuses
     lastK |-> 0,      \* k of the last "Reconnecting (k/3)"
     nDiscSt |-> 0,    \* "Disconnected (<error>)" statuses
     nSig |-> 0,       \* disconnect_signal emissions
     lastSt |-> "none",\* kind of the last status emitted
     lastErr |-> "none",     \* error_type of the last error status
     discErr |-> "none",     \* error_type in "Disconnected (<error>)"
     stopCalled |-> FALSE,   \* stop() was entered
     userStop |-> FALSE,     \* stop(user_initiated=True) was entered
     stopAtRead |-> FALSE,   \* ... while the thread was blocked in recv
     userStopRet |-> FALSE,  \* stop(user_initiated=True) has returned
     stops |-> <<>>,         \* arguments of the stop() calls that returned
     stopAtWait |-> FALSE,   \* stop() was entered during the backoff wait
     stopFail |-> FALSE,     \* recv failed on a socket that stop() closed
                             \* and no stop(user_initiated=True) was called
     recvd |-> 0,      \* bytes returned by successful recv calls
     trimmed |-> 0,    \* bytes removed from the buffer by on_data
     raced |-> FALSE]  \* a trim found bytes appended after its snapshot

\* line 284: the condition of the outer while loop
LoopCond(cn) ==
    /\ cn.reconnect_attempts <= MaxRetries
    /\ ~cn.stop_event
    /\ ~cn.user_stopped

\* The text of an exception, str(e).lower(), is the set of those keywords
\* of lines 338-340 and 353-357 that occur in it.
ShutdownWords == {"winerror 10038", "bad file descriptor", "not a socket"}
ErrorWords == {"rejected", "401", "unauthorized", "timeout", "timed out",
               "refused"}

\* the texts of the exceptions that run() handles
Rejected == {"rejected"}            \* line 298
TimedOut == {"timed out"}           \* socket.timeout
Refused  == {"refused"}             \* ConnectionRefusedError
Closed   == {}                      \* line 320, connection reset, no route
BadDescriptor == {"bad file descriptor"}    \* recv on a closed socket

\* line 297: sub in s for bytes
RECURSIVE BytesIn(_, _)
BytesIn(sub, s) ==
    IF Len(sub) > Len(s) THEN FALSE
    ELSE IF Take(s, Len(sub)) = sub THEN TRUE
    ELSE BytesIn(sub, Tail(s))

ICY200OK == <<"I", "C", "Y", " ", "2", "0", "0", " ", "O", "K">>
OK200    == <<"2", "0", "0", " ", "O", "K">>

\* the handshake test accepting the ICY form only
Accepted_icyOnly(header) == BytesIn(ICY200OK, header)

\* line 297: the handshake test
Accepted(header) == BytesIn(ICY200OK, header) \/ BytesIn(OK200, header)

\* responses of a caster to the request of lines 287-295
IcyOk        == ICY200OK \o <<"\r", "\n">>
HttpOk       == <<"H", "T", "T", "P", " ">> \o OK200
SourceTable  == <<"S", "T", " ">> \o OK200
Unauthorized == <<"H", "T", "T", "P", " ", "4", "0", "1">>
EmptyRead    == <<>>
LowerCase    == <<"2", "0", "0", " ", "o", "k">>
Truncated    == <<"I", "C", "Y", " ", "2", "0", "0">>
Headers == {IcyOk, HttpOk, SourceTable, Unauthorized, EmptyRead, LowerCase,
            Truncated}

\* is_shutdown_error judged by the text of the exception alone
IsShutdownError_messageOnly(cn) == cn.err \cap ShutdownWords # {}

\* lines 336-342: is_shutdown_error
IsShutdownError(cn) == cn.err \cap ShutdownWords # {} \/ cn.stop_event

\* the classification testing "refused" before the timeout keywords
ErrorType_refusedFirst(err) ==
    IF err \cap {"rejected", "401", "unauthorized"} # {}
    THEN "Authentication failed"
    ELSE IF "refused" \in err THEN "Connection refused"
    ELSE IF err \cap {"timeout", "timed out"} # {} THEN "Connection timeout"
    ELSE "Network error"

\* lines 353-360: error_type
ErrorType(err) ==
    IF err \cap {"rejected", "401", "unauthorized"} # {}
    THEN "Authentication failed"
    ELSE IF err \cap {"timeout", "timed out"} # {} THEN "Connection timeout"
    ELSE IF "refused" \in err THEN "Connection refused"
    ELSE "Network error"

\* the final status naming no reason of its own
DisconnectReason_generic(cn) == "Network error"

\* line 372: the error_type of the handler that emits the final status
DisconnectReason(cn) == ErrorType(cn.err)

\* the retry decision with the bound taken as exclusive
RetryCond_exclusive(cn) ==
    ~cn.user_stopped /\ cn.reconnect_attempts < MaxRetries

\* line 365: the retry decision
RetryCond(cn) == ~cn.user_stopped /\ cn.reconnect_attempts <= MaxRetries

\* the locked update counting reads instead of bytes
AppendData_perRead(cn, data) ==
    [cn EXCEPT !.total_bytes = @ + 1, !.buffer = @ \o data]

\* lines 322-325: the locked update of the counters and the buffer
AppendData(cn, data) ==
    [cn EXCEPT !.total_bytes = @ + Len(data), !.buffer = @ \o data]

Active(c) == pc[c] \notin {"new", "done"}

GuiNoEnv ==
    <<casters, clients, start_times, StatVars, gui, nconn, stream, Ghost>>
GuiVars == <<GuiNoEnv, env>>

\* The environment of a behaviour: the responses the caster gives to the
\* request, whether the installed RTCMReader raises a checksum mismatch to
\* its caller (strict) or skips the frame, the failures the network
\* injects, the handlers the user invokes, the instances that may be
\* created and the sizes of a read.
Budget(fails, ops, conns, chunks) ==
    [headers |-> {IcyOk, Unauthorized}, strict |-> FALSE, fails |-> fails,
     ops |-> ops, conns |-> conns, chunks |-> chunks]

\* an injected failure uses up one unit of env.fails
InjectFailure == env.fails > 0 /\ env' = [env EXCEPT !.fails = @ - 1]

\* a handler invoked by the user uses up one unit of env.ops
UserEvent == env.ops > 0 /\ env' = [env EXCEPT !.ops = @ - 1]

\* line 284
RunLoop(c) ==
    /\ pc[c] = "loop"
    /\ IF LoopCond(conn[c])
       THEN /\ pc' = [pc EXCEPT ![c] = "connect"]
            /\ conn' = [conn EXCEPT ![c].sOpen = TRUE]
            /\ hist' = [hist EXCEPT ![c].attempts = @ + 1]
       ELSE /\ pc' = [pc EXCEPT ![c] = "emitdisc"]
            /\ UNCHANGED <<conn, hist>>
    /\ UNCHANGED <<GuiVars, notes>>

\* lines 292-295: connect and send the request; a failure raises
Raise(c, text) ==
    /\ pc' = [pc EXCEPT ![c] = "except"]
    /\ conn' = [conn EXCEPT ![c].err = text]

ConnectOk(c) ==
    /\ pc[c] = "connect"
    /\ pc' = [pc EXCEPT ![c] = "handshake"]
    /\ UNCHANGED <<GuiVars, notes, conn, hist>>

ConnectFail(c) ==
    /\ pc[c] = "connect"
    /\ \E text \in {TimedOut, Refused, Closed} : Raise(c, text)
    /\ hist' = [hist EXCEPT ![c].fails = @ + 1]
    /\ InjectFailure
    /\ UNCHANGED <<GuiNoEnv, notes>>

\* lines 296-298: read the header, one of env.headers, and test it; or the
\* read times out
HandshakeAccept(c) ==
    /\ pc[c] = "handshake"
    /\ \E header \in env.headers :
         /\ Accepted(header)
         /\ conn' = [conn EXCEPT ![c].header = header]
    /\ pc' = [pc EXCEPT ![c] = "acc1"]
    /\ UNCHANGED <<GuiVars, notes, hist>>

HandshakeReject(c) ==
    /\ pc[c] = "handshake"
    /\ pc' = [pc EXCEPT ![c] = "except"]
    /\ \/ \E header \in env.headers :
            /\ ~Accepted(header)
            /\ conn' = [conn EXCEPT ![c].header = header,
                                    ![c].err = Rejected]
            /\ hist' = [hist EXCEPT ![c].fails = @ + 1,
                                    ![c].rejects = @ + 1]
       \/ /\ conn' = [conn EXCEPT ![c].err = TimedOut]
          /\ hist' = [hist EXCEPT ![c].fails = @ + 1]
    /\ InjectFailure
    /\ UNCHANGED <<GuiNoEnv, notes>>

\* line 300: self.socket = s
SetSocket(c) ==
    /\ pc[c] = "acc1"
    /\ pc' = [pc EXCEPT ![c] = "acc2"]
    /\ conn' = [conn EXCEPT ![c].socket = "cur"]
    /\ UNCHANGED <<GuiVars, notes, hist>>

\* line 301: self.running = True
SetRunning(c) ==
    /\ pc[c] = "acc2"
    /\ pc' = [pc EXCEPT ![c] = "acc3"]
    /\ conn' = [conn EXCEPT ![c].running = TRUE]
    /\ UNCHANGED <<GuiVars, notes, hist>>

\* the accept path leaving the retry counter as it is
ResetAttempts_keep(cn) == cn

\* line 302: self.reconnect_attempts = 0
ResetAttempts(cn) == [cn EXCEPT !.reconnect_attempts = 0]

\* lines 302-303: reset the attempt counter, emit "Connection OK"
EmitOK(c) ==
    /\ pc[c] = "acc3"
    /\ pc' = [pc EXCEPT ![c] = "while"]
    /\ conn' = [conn EXCEPT ![c] = ResetAttempts(@)]
    /\ hist' = [hist EXCEPT ![c].nOK = @ + 1, ![c].lastSt = "ok"]
    /\ UNCHANGED <<GuiVars, notes>>

\* line 305, and line 328 when the loop is left
Break(c) ==
    /\ pc' = [pc EXCEPT ![c] = "finally"]
    /\ conn' = [conn EXCEPT ![c].brk = TRUE]

ReadLoop(c) ==
    /\ pc[c] = "while"
    /\ IF conn[c].running /\ ~conn[c].stop_event
       THEN pc' = [pc EXCEPT ![c] = "recv"] /\ UNCHANGED conn
       ELSE Break(c)
    /\ UNCHANGED <<GuiVars, notes, hist>>

\* lines 307, 321-325: recv returned the next bytes of the stream, at most
\* k of them, and they were appended under the lock
RecvData(c) ==
    /\ pc[c] = "recv"
    /\ conn[c].sOpen
    /\ hist[c].recvd < Len(stream)
    /\ \E k \in env.chunks :
         LET got == Min(k, Len(stream) - hist[c].recvd)
         IN  /\ conn' = [conn EXCEPT ![c] =
                    AppendData(@, SubSeq(stream, hist[c].recvd + 1,
                                         hist[c].recvd + got))]
             /\ hist' = [hist EXCEPT ![c].recvd = @ + got]
    /\ pc' = [pc EXCEPT ![c] = "notify"]
    /\ UNCHANGED <<GuiVars, notes>>

\* lines 308-309: socket.timeout
RecvTimeout(c) ==
    /\ pc[c] = "recv"
    /\ conn[c].sOpen
    /\ pc' = [pc EXCEPT ![c] = "while"]
    /\ UNCHANGED <<GuiVars, notes, conn, hist>>

\* lines 310-320: recv raised or returned no bytes: the peer closed or
\* reset the connection, or stop() closed the socket under the read
RecvFail(c) ==
    /\ pc[c] = "recv"
    /\ IF conn[c].user_stopped
       THEN Break(c)
       ELSE \E text \in (IF conn[c].sOpen THEN {Closed, Refused}
                         ELSE {Closed, BadDescriptor}) : Raise(c, text)
    /\ IF conn[c].sOpen THEN InjectFailure ELSE UNCHANGED env
    /\ hist' = [hist EXCEPT ![c].stopFail =
                    @ \/ (~conn[c].sOpen /\ ~hist[c].userStop)]
    /\ UNCHANGED <<GuiNoEnv, notes>>

\* the read loop going on without the emit
EmitData_none(queued, n) == queued

\* line 327: the emit queues one call of on_data(n, ...) for the GUI thread
EmitData(queued, n) == [queued EXCEPT ![n] = @ + 1]

\* line 327: data_signal.emit(name, b"")
Notify(c) ==
    /\ pc[c] = "notify"
    /\ pc' = [pc EXCEPT ![c] = "while"]
    /\ notes' = EmitData(notes, conn[c].name)
    /\ UNCHANGED <<GuiVars, conn, hist>>

\* lines 330-333
ExceptUser(c) ==
    /\ pc[c] = "except"
    /\ IF conn[c].user_stopped
       THEN Break(c)
       ELSE pc' = [pc EXCEPT ![c] = "exc2"] /\ UNCHANGED conn
    /\ UNCHANGED <<GuiVars, notes, hist>>

\* lines 336-347
ExceptShutdown(c) ==
    /\ pc[c] = "exc2"
    /\ IF IsShutdownError(conn[c])
       THEN Break(c)
       ELSE pc' = [pc EXCEPT ![c] = "exc3"] /\ UNCHANGED conn
    /\ UNCHANGED <<GuiVars, notes, hist>>

\* lines 362-363: emit the error status, count the attempt
EmitError(c) ==
    /\ pc[c] = "exc3"
    /\ pc' = [pc EXCEPT ![c] = "exc4"]
    /\ conn' = [conn EXCEPT ![c].reconnect_attempts = @ + 1]
    /\ hist' = [hist EXCEPT ![c].nErr = @ + 1, ![c].lastSt = "err",
                            ![c].lastErr = ErrorType(conn[c].err)]
    /\ UNCHANGED <<GuiVars, notes>>

\* lines 365, 371: choose between the retry and the final status
RetryDecision(c) ==
    /\ pc[c] = "exc4"
    /\ IF RetryCond(conn[c])
       THEN pc' = [pc EXCEPT ![c] = "emitrec"] /\ UNCHANGED conn
       ELSE IF ~conn[c].user_stopped
       THEN pc' = [pc EXCEPT ![c] = "emitdown"] /\ UNCHANGED conn
       ELSE Break(c)
    /\ UNCHANGED <<GuiVars, notes, hist>>

\* line 366
EmitReconnecting(c) ==
    /\ pc[c] = "emitrec"
    /\ pc' = [pc EXCEPT ![c] = "wait"]
    /\ hist' = [hist EXCEPT ![c].nRec = @ + 1, ![c].lastSt = "rec",
                            ![c].lastK = conn[c].reconnect_attempts]
    /\ UNCHANGED <<GuiVars, notes, conn>>

\* lines 368-369: stop_event.wait(10)
Wait(c) ==
    /\ pc[c] = "wait"
    /\ IF conn[c].stop_event
       THEN Break(c)
       ELSE /\ pc' = [pc EXCEPT ![c] = "finally"]
            /\ conn' = [conn EXCEPT ![c].brk = FALSE]
    /\ UNCHANGED <<GuiVars, notes, hist>>

\* lines 372-373
EmitDisconnected(c) ==
    /\ pc[c] = "emitdown"
    /\ Break(c)
    /\ hist' = [hist EXCEPT ![c].nDiscSt = @ + 1, ![c].lastSt = "disc",
                            ![c].discErr = DisconnectReason(conn[c])]
    /\ UNCHANGED <<GuiVars, notes>>

\* lines 374-380: running = False; close self.socket if it is set
CloseSelfSocket(cn) ==
    IF cn.socket = "cur" THEN [cn EXCEPT !.sOpen = FALSE] ELSE cn

\* the finally block leaving the flag as it finds it
RunEnded_keep(cn) == cn

\* line 375: self.running = False
RunEnded(cn) == [cn EXCEPT !.running = FALSE]

\* a break that ends the thread at once
AfterFinally_end(cn) == IF cn.brk THEN "done" ELSE "loop"

\* lines 284, 328, 381: after the finally block a break leaves the loop for
\* line 381, anything else goes back to the loop condition
AfterFinally(cn) == IF cn.brk THEN "emitdisc" ELSE "loop"

Finally(c) ==
    /\ pc[c] = "finally"
    /\ pc' = [pc EXCEPT ![c] = AfterFinally(conn[c])]
    /\ conn' = [conn EXCEPT ![c] =
           [CloseSelfSocket(RunEnded(@))
               EXCEPT !.brk = FALSE, !.err = {}, !.header = <<>>,
                      !.socket = IF @ = "cur" THEN "old" ELSE @]]
    /\ UNCHANGED <<GuiVars, notes, hist>>

\* line 381
EmitDisconnectSignal(c) ==
    /\ pc[c] = "emitdisc"
    /\ pc' = [pc EXCEPT ![c] = "done"]
    /\ hist' = [hist EXCEPT ![c].nSig = @ + 1]
    /\ UNCHANGED <<GuiVars, notes, conn>>

\* ------------------------------------------------------ NTRIPClient.stop
\* The GUI thread: gui.pc is "idle" between event handlers; inside stop(c)
\* it is at one of the four statements of stop, k names the handler that
\* called it.
GuiIdle ==
    [pc |-> "idle", c |-> NoConn, u |-> FALSE, k |-> "none", n |-> "none",
     n2 |-> "none", buf |-> <<>>, todo |-> <<>>,
     last |-> "none",  \* the handler that ran last and what it did
     tick |-> FALSE]   \* flips at every call of start_connection

Done(last) == [GuiIdle EXCEPT !.last = last, !.tick = gui.tick]

CallStop(c, u, k, n, n2) ==
    [GuiIdle EXCEPT !.pc = "stop1", !.c = c, !.u = u, !.k = k, !.n = n,
                    !.n2 = n2, !.last = "stop", !.tick = gui.tick]

ThreadVars == <<pc, notes>>

\* line 384
StopRunning(cn) == [cn EXCEPT !.running = FALSE]

\* stop() inverting the flag on a user-initiated call
StopUser_flip(cn, u) == [cn EXCEPT !.user_stopped = IF u THEN ~@ ELSE FALSE]

\* line 385
StopUser(cn, u) == [cn EXCEPT !.user_stopped = u]

\* line 386
StopEvent(cn) == [cn EXCEPT !.stop_event = TRUE]

\* lines 383-395 run without interruption
stop(cn, u) == CloseSelfSocket(StopEvent(StopUser(StopRunning(cn), u)))

\* line 384: self.running = False
Stop1 ==
    /\ gui.pc = "stop1"
    /\ gui' = [gui EXCEPT !.pc = "stop2"]
    /\ conn' = [conn EXCEPT ![gui.c] = StopRunning(@)]
    /\ hist' = [hist EXCEPT ![gui.c].stopCalled = TRUE,
                            ![gui.c].userStop = @ \/ gui.u,
                            ![gui.c].stopAtWait = @ \/ pc[gui.c] = "wait",
                            ![gui.c].stopAtRead =
                                @ \/ (gui.u /\ pc[gui.c] = "recv")]
    /\ UNCHANGED <<casters, clients, start_times, StatVars, nconn, stream,
                   Ghost, env,
                   ThreadVars>>

\* line 385: self.user_stopped = user_initiated
Stop2 ==
    /\ gui.pc = "stop2"
    /\ gui' = [gui EXCEPT !.pc = "stop3"]
    /\ conn' = [conn EXCEPT ![gui.c] = StopUser(@, gui.u)]
    /\ UNCHANGED <<casters, clients, start_times, StatVars, nconn, stream,
                   Ghost, env,
                   ThreadVars, hist>>

\* line 386: self.stop_event.set()
Stop3 ==
    /\ gui.pc = "stop3"
    /\ gui' = [gui EXCEPT !.pc = "stop4"]
    /\ conn' = [conn EXCEPT ![gui.c] = StopEvent(@)]
    /\ UNCHANGED <<casters, clients, start_times, StatVars, nconn, stream,
                   Ghost, env,
                   ThreadVars, hist>>

\* lines 387-395: shut down and close self.socket if it is set; the second
\* stop() of remove_caster_by_name is not followed by a join
Stop4 ==
    /\ gui.pc = "stop4"
    /\ gui' = IF gui.k = "remove2" THEN Done("remove")
              ELSE [gui EXCEPT !.pc = "join"]
    /\ conn' = [conn EXCEPT ![gui.c] = CloseSelfSocket(@)]
    /\ hist' = [hist EXCEPT ![gui.c].userStopRet = @ \/ gui.u,
                            ![gui.c].stops = Append(@, gui.u)]
    /\ UNCHANGED <<casters, clients, start_times, StatVars, nconn, stream,
                   Ghost, env,
                   ThreadVars>>

\* ----------------------------------------------- NTRIPCheckerPro handlers
\* the guard of start_connection looking at the registration only
AlreadyRunning_registered(n) == clients[n] # NoConn

\* line 1714: the guard of start_connection
AlreadyRunning(n) == clients[n] # NoConn /\ conn[clients[n]].running

\* lines 1716-1720: create, register and start a client
CreateClientIn(cl, st, n) ==
    /\ nconn < env.conns
    /\ nconn' = nconn + 1
    /\ conn' = [conn EXCEPT ![nconn + 1] = NewConn(n)]
    /\ hist' = [hist EXCEPT ![nconn + 1] = NewHist]
    /\ pc' = [pc EXCEPT ![nconn + 1] = "loop"]
    /\ clients' = [cl EXCEPT ![n] = nconn + 1]
    /\ start_times' = [st EXCEPT ![n] = nconn + 1]

CreateClient(n) == CreateClientIn(clients, start_times, n)

\* lines 1712-1722, called by auto_connect_all and show_add_dialog with a
\* configured caster
StartConnection(n) ==
    /\ gui.pc = "idle"
    /\ UserEvent
    /\ SeqContains(casters, n)
    /\ IF AlreadyRunning(n)
       THEN /\ gui' = [GuiIdle EXCEPT !.last = "start_noop", !.n = n,
                                      !.tick = ~gui.tick]
            /\ UNCHANGED <<clients, start_times, nconn, conn, pc, hist>>
       ELSE /\ CreateClient(n)
            /\ gui' = [GuiIdle EXCEPT !.last = "start_new", !.n = n,
                                      !.tick = ~gui.tick]
    /\ UNCHANGED <<casters, StatVars, notes, stream, Ghost>>

\* lines 1797-1816
ManualToggle(n) ==
    /\ gui.pc = "idle"
    /\ UserEvent
    /\ SeqContains(casters, n)
    /\ IF clients[n] # NoConn /\ conn[clients[n]].running
       THEN /\ gui' = CallStop(clients[n], TRUE, "toggle", n, "none")
            /\ UNCHANGED <<clients, start_times, nconn, conn, pc, hist>>
       ELSE /\ CreateClient(n)
            /\ gui' = [Done("toggle_new") EXCEPT !.n = n]
    /\ UNCHANGED <<casters, StatVars, notes, stream, Ghost>>

\* client.join(timeout=2): returns when the thread has ended or after 2 s
Join ==
    /\ gui.pc = "join"
    /\ gui' = IF gui.k = "toggle" THEN Done("toggle_stop")
              ELSE [gui EXCEPT !.pc = gui.k]
    /\ UNCHANGED <<casters, clients, start_times, StatVars, nconn, stream,
                   Ghost, env,
                   conn, hist, ThreadVars>>

\* lines 1741-1783 (the dialog is confirmed)
RemoveBegin(n) ==
    /\ gui.pc = "idle"
    /\ UserEvent
    /\ SeqContains(casters, n)
    /\ gui' = IF clients[n] # NoConn /\ conn[clients[n]].running
              THEN CallStop(clients[n], FALSE, "remove_rest", n, "none")
              ELSE [Done("remove") EXCEPT !.pc = "remove_rest", !.n = n]
    /\ UNCHANGED <<casters, clients, start_times, StatVars, nconn, stream,
                   Ghost,
                   conn, hist, ThreadVars>>

RemoveRest ==
    /\ gui.pc = "remove_rest"
    /\ casters' = SelectSeq(casters, LAMBDA x : x # gui.n)
    /\ clients' = [clients EXCEPT ![gui.n] = NoConn]
    /\ gui' = IF clients[gui.n] # NoConn
              THEN CallStop(clients[gui.n], FALSE, "remove2", gui.n, "none")
              ELSE Done("remove")
    /\ UNCHANGED <<start_times, StatVars, nconn, stream, Ghost, env, conn,
                   hist,
                   ThreadVars>>

\* lines 1818-1865: the dialog is accepted with a caster named new
RECURSIVE ReplaceFirst(_, _, _)
ReplaceFirst(s, old, new) ==
    IF s = <<>> THEN <<>>
    ELSE IF Head(s) = old THEN <<new>> \o Tail(s)
    ELSE <<Head(s)>> \o ReplaceFirst(Tail(s), old, new)

NoStats == [i \in Ids |-> 0]

\* the pop discarding the message stats of every caster
PopStats_all(stats, n) == [m \in Names |-> NoStats]

\* line 1863: self.rtcm_stats.pop(old_name, None)
PopStats(stats, n) == [stats EXCEPT ![n] = NoStats]

EditBegin(old, new) ==
    /\ gui.pc = "idle"
    /\ UserEvent
    /\ SeqContains(casters, old)
    /\ nconn < env.conns
    /\ casters' = ReplaceFirst(casters, old, new)
    /\ gui' = IF clients[old] = NoConn THEN Done("edit")
              ELSE IF conn[clients[old]].running
              THEN CallStop(clients[old], FALSE, "edit_rest", old, new)
              ELSE [Done("edit") EXCEPT !.pc = "edit_rest", !.n = old,
                                        !.n2 = new]
    /\ UNCHANGED <<clients, start_times, StatVars, nconn, stream, Ghost,
                   conn,
                   hist, ThreadVars>>

EditRest ==
    /\ gui.pc = "edit_rest"
    /\ LET cl == [clients EXCEPT ![gui.n] = NoConn]
           st == [start_times EXCEPT ![gui.n] = 0]
       IN  IF cl[gui.n2] # NoConn /\ conn[cl[gui.n2]].running
           THEN /\ clients' = cl
                /\ start_times' = st
                /\ UNCHANGED <<nconn, conn, hist, pc>>
           ELSE CreateClientIn(cl, st, gui.n2)
    /\ rtcm_stats' = PopStats(rtcm_stats, gui.n)
    /\ decoded' = [decoded EXCEPT ![gui.n] = NoStats]
    /\ gui' = Done("edit")
    /\ UNCHANGED <<casters, stream, env, notes, satellite_stats, signal_stats,
                   yielded>>

\* lines 2014-2027: one iteration of the loop over self.casters per step
ConnectAllBegin ==
    /\ gui.pc = "idle"
    /\ UserEvent
    /\ nconn + Len(casters) <= env.conns
    /\ gui' = [Done("connall") EXCEPT !.pc = "connall", !.todo = casters]
    /\ UNCHANGED <<casters, clients, start_times, StatVars, nconn, stream,
                   Ghost,
                   conn, hist, ThreadVars>>

ConnectAllStep ==
    /\ gui.pc = "connall"
    /\ IF gui.todo = <<>>
       THEN /\ gui' = Done("connall")
            /\ UNCHANGED <<clients, start_times, nconn, conn, pc, hist>>
       ELSE LET n == Head(gui.todo)
            IN  IF (clients[n] = NoConn \/ ~conn[clients[n]].running)
                   /\ ~AlreadyRunning(n)
                THEN /\ CreateClient(n)
                     /\ gui' = [gui EXCEPT !.todo = Tail(@), !.n = n,
                                           !.last = "connall_new",
                                           !.tick = ~@]
                ELSE /\ gui' = [gui EXCEPT !.todo = Tail(@), !.n = n,
                                           !.last = "connall_skip"]
                     /\ UNCHANGED <<clients, start_times, nconn, conn, pc,
                                    hist>>
    /\ UNCHANGED <<casters, StatVars, notes, stream, Ghost, env>>

\* ----------------------------------------------------------------- on_data
\* the counting loop creating the entry anew for every frame
RECURSIVE CountMessages_fresh(_, _)
CountMessages_fresh(stats, ids) ==
    IF ids = <<>> THEN stats
    ELSE CountMessages_fresh(
             IF Head(ids) = NoId THEN stats
             ELSE [stats EXCEPT ![Head(ids)] = 1],
             Tail(ids))

\* lines 1934-1946: count every yielded frame that has an identity
RECURSIVE CountMessages(_, _)
CountMessages(stats, ids) ==
    IF ids = <<>> THEN stats
    ELSE CountMessages(
             IF Head(ids) = NoId THEN stats
             ELSE [stats EXCEPT ![Head(ids)] = @ + 1],
             Tail(ids))

\* the merge keeping only the sets of the last frame
MergeSets_replace(cur, new) ==
    [k \in Constellations |-> IF new[k] # {} THEN new[k] ELSE cur[k]]

\* lines 1962-1967: "if sats: ...[constellation].update(sats)"
MergeSets(cur, new) ==
    [k \in Constellations |-> IF new[k] # {} THEN cur[k] \cup new[k]
                              ELSE cur[k]]

\* lines 1948-1967 over the yielded frames that have an identity; which is
\* "satellites" or "signals"
RECURSIVE MergeAll(_, _, _)
MergeAll(cur, msgs, which) ==
    IF msgs = <<>> THEN cur
    ELSE MergeAll(
             IF Head(msgs).identity = NoId THEN cur
             ELSE MergeSets(cur, extract_satellite_info(Head(msgs))[which]),
             Tail(msgs), which)

\* the trim rebuilding the buffer from the snapshot
TrimBuffer_fromSnapshot(buffer, consumed) == Drop(gui.buf, consumed)

\* lines 1969-1972: remove the consumed bytes from the client's buffer
TrimBuffer(buffer, consumed) == Drop(buffer, consumed)

\* the copy losing the byte appended last
Snapshot_dropLast(cn) == Take(cn.buffer, Len(cn.buffer) - 1)

\* lines 1927-1928: buf = bytes(client.buffer), under the client's lock
Snapshot(cn) == cn.buffer

\* lines 1923-1930: look the client up, copy its buffer under the lock
OnDataSnapshot(n) ==
    /\ gui.pc = "idle"
    /\ notes[n] > 0
    /\ notes' = [notes EXCEPT ![n] = @ - 1]
    /\ gui' = IF clients[n] = NoConn \/ conn[clients[n]].buffer = <<>>
              THEN Done("on_data")
              ELSE [Done("on_data") EXCEPT !.pc = "decode", !.n = n,
                        !.c = clients[n], !.buf = Snapshot(conn[clients[n]])]
    /\ UNCHANGED <<casters, clients, start_times, StatVars, nconn, stream,
                   Ghost, env,
                   conn, hist, pc>>

\* the trim running also at the end of a pass that an exception ended
ShouldTrim_always(r) == r.tell > 0

\* lines 1969-1970: the trim is reached when the loop ended without an
\* exception, and runs "if consumed"
ShouldTrim(r) == ~r.raised /\ r.tell > 0

\* lines 1931-1977: decode the snapshot, count, trim; an exception raised
\* by the reader ends the pass at the except clause
OnDataDecode ==
    /\ gui.pc = "decode"
    /\ LET r == RTCMReader(gui.buf, 0, <<>>, env.strict)
           consumed == r.tell
       IN    /\ rtcm_stats' = [rtcm_stats EXCEPT ![gui.n] =
                                   CountMessages(@, r.ids)]
             /\ satellite_stats' = [satellite_stats EXCEPT ![gui.n] =
                                   MergeAll(@, r.msgs, "satellites")]
             /\ signal_stats' = [signal_stats EXCEPT ![gui.n] =
                                   MergeAll(@, r.msgs, "signals")]
             /\ IF ShouldTrim(r)
                THEN /\ conn' = [conn EXCEPT ![gui.c].buffer =
                                     TrimBuffer(@, consumed)]
                     /\ hist' = [hist EXCEPT
                            ![gui.c].trimmed = @ + consumed,
                            ![gui.c].raced = @ \/ Len(conn[gui.c].buffer)
                                                    > Len(gui.buf)]
                ELSE UNCHANGED <<conn, hist>>
             /\ decoded' = [decoded EXCEPT ![gui.n] =
                     [i \in Ids |-> @[i] + CountOf(r.ids, i)]]
             /\ yielded' = [yielded EXCEPT ![gui.n] =
                     @ \cup {r.msgs[i] : i \in {j \in 1..Len(r.msgs) :
                                                  r.msgs[j].identity # NoId}}]
             /\ gui' = Done(IF r.raised THEN "on_data_error" ELSE "on_data")
    /\ UNCHANGED <<casters, clients, start_times, nconn, stream, env,
                   ThreadVars>>

\* --------------------------------------------------------- specification
InitWith(names, streams, budget) ==
    /\ casters = names
    /\ env = budget
    /\ clients = [n \in Names |-> NoConn]
    /\ start_times = [n \in Names |-> 0]
    /\ rtcm_stats = [n \in Names |-> NoStats]
    /\ satellite_stats = [n \in Names |-> NoSets]
    /\ signal_stats = [n \in Names |-> NoSets]
    /\ gui = GuiIdle
    /\ notes = [n \in Names |-> 0]
    /\ nconn = 0
    /\ conn = [c \in Conns |-> NewConn("none")]
    /\ pc = [c \in Conns |-> "new"]
    /\ hist = [c \in Conns |-> NewHist]
    /\ decoded = [n \in Names |-> NoStats]
    /\ yielded = [n \in Names |-> {}]
    /\ stream \in streams

\* Connection life cycle: one caster, a caster that sends two bytes.
MaxFails == 4       \* failures the network injects
MaxOps   == 2       \* handlers the user invokes
MaxInst  == 1       \* NTRIPClient instances created

Init == InitWith(<<"A">>, {<<0, 0>>},
                 Budget(MaxFails, MaxOps, MaxInst, 1..MaxChunk))

\* the steps of run() on the path to and through the read loop
Streaming(c) ==
    \/ RunLoop(c)
    \/ ConnectOk(c)
    \/ HandshakeAccept(c)
    \/ SetSocket(c)
    \/ SetRunning(c)
    \/ EmitOK(c)
    \/ ReadLoop(c)
    \/ RecvData(c)
    \/ RecvTimeout(c)
    \/ Notify(c)

\* the steps of run() out of the read loop and to the end of the thread
Leaving(c) ==
    \/ RecvFail(c)
    \/ ExceptUser(c)
    \/ ExceptShutdown(c)
    \/ Finally(c)
    \/ EmitDisconnectSignal(c)

\* the steps of run() that report a failure and retry
Retrying(c) ==
    \/ ConnectFail(c)
    \/ HandshakeReject(c)
    \/ EmitError(c)
    \/ RetryDecision(c)
    \/ EmitReconnecting(c)
    \/ Wait(c)

Thread(c) ==
    Streaming(c) \/ Leaving(c) \/ Retrying(c) \/ EmitDisconnected(c)

StopCall ==
    \/ Stop1
    \/ Stop2
    \/ Stop3
    \/ Stop4
    \/ Join

Lifecycle ==
    \/ \E n \in Names : StartConnection(n)
    \/ \E n \in Names : ManualToggle(n)
    \/ \E n \in Names : RemoveBegin(n)
    \/ RemoveRest

Restart ==
    \/ \E old \in Names, new \in Names : EditBegin(old, new)
    \/ EditRest
    \/ ConnectAllBegin
    \/ ConnectAllStep

OnData ==
    \/ \E n \in Names : OnDataSnapshot(n)
    \/ OnDataDecode

Next == (\E c \in Conns : Thread(c)) \/ StopCall \/ Lifecycle

Spec == Init /\ [][Next]_vars

\* Decode path: one caster on a network that does not fail; its stream is
\* a sequence of frames, read in chunks and decoded by on_data.
DataOps == 1        \* handlers the user invokes

WellFormed ==
    { Frame(<<1074>>) \o Frame(<<1084>>),
      Frame(<<1074>>) \o Frame(<<>>) \o Frame(<<1074>>) }

Malformed ==
    { <<0>> \o Frame(<<1074>>) \o BadFrame(<<1084>>) \o Frame(<<1084>>) }

InitData ==
    \E strict \in BOOLEAN :
        InitWith(<<"A">>, WellFormed \cup Malformed,
                 [Budget(0, DataOps, 1, 1..MaxChunk)
                     EXCEPT !.strict = strict])

NextData ==
    \/ \E c \in Conns : Streaming(c)
    \/ \E n \in Names : StartConnection(n)
    \/ OnData

SpecData == InitData /\ [][NextData]_vars

\* Message statistics: one caster that sends two frames and is edited and
\* restarted while on_data decodes.
StatsOps  == 2      \* handlers the user invokes
StatsInst == 2      \* NTRIPClient instances created
StatsChunk == 4     \* bytes returned by one recv

InitStats == InitWith(<<"A">>, {Frame(<<1074>>) \o Frame(<<1074>>)},
                      Budget(0, StatsOps, StatsInst, {StatsChunk}))

NextStats ==
    \/ \E c \in Conns : Streaming(c) \/ Leaving(c)
    \/ StopCall
    \/ \E n \in Names : StartConnection(n)
    \/ \E old \in Names, new \in Names : EditBegin(old, new)
    \/ EditRest
    \/ OnData

SpecStats == InitStats /\ [][NextStats]_vars

\* Supervision: two casters on a network that does not fail, every handler
\* that creates, stops or replaces a client.
SupOps  == 2        \* handlers the user invokes
SupInst == 3        \* NTRIPClient instances created

InitSup == InitWith(<<"A", "B">>, {<<0>>},
                    Budget(0, SupOps, SupInst, 1..MaxChunk))

NextSup ==
    \/ \E c \in Conns : Streaming(c) \/ Leaving(c)
    \/ StopCall
    \/ Lifecycle
    \/ Restart

SpecSup == InitSup /\ [][NextSup]_vars

\* Satellite and signal statistics: one caster that sends MSM frames with
\* overlapping satellite and signal masks, decoded by on_data while the
\* caster is stopped, restarted, edited and removed.
SatOps   == 2       \* handlers the user invokes
SatInst  == 2       \* NTRIPClient instances created
SatChunk == 6       \* bytes returned by one recv (one frame)

MsmStream == Frame(<<1074, 5, 1>>) \o Frame(<<1074, 6, 2>>)

\* lines 638-665: the state when NTRIPCheckerPro.__init__ returns; its last
\* statement, auto_connect_all, has started a client for every configured
\* caster
InitStarted(names, streams, budget) ==
    LET First(n) == CHOOSE i \in 1..Len(names) : names[i] = n
        Configured(n) == \E i \in 1..Len(names) : names[i] = n
    IN  /\ casters = names
        /\ env = budget
        /\ clients = [n \in Names |->
                         IF Configured(n) THEN First(n) ELSE NoConn]
        /\ start_times = clients
        /\ rtcm_stats = [n \in Names |-> NoStats]
        /\ satellite_stats = [n \in Names |-> NoSets]
        /\ signal_stats = [n \in Names |-> NoSets]
        /\ gui = GuiIdle
        /\ notes = [n \in Names |-> 0]
        /\ nconn = Len(names)
        /\ conn = [c \in Conns |-> IF c <= Len(names)
                                    THEN NewConn(names[c])
                                    ELSE NewConn("none")]
        /\ pc = [c \in Conns |-> IF c <= Len(names) THEN "loop" ELSE "new"]
        /\ hist = [c \in Conns |-> NewHist]
        /\ decoded = [n \in Names |-> NoStats]
        /\ yielded = [n \in Names |-> {}]
        /\ stream \in streams

InitSat == InitStarted(<<"A">>, {MsmStream},
                       Budget(0, SatOps, SatInst, {SatChunk}))

NextSat ==
    \/ \E c \in Conns : Streaming(c) \/ Leaving(c)
    \/ StopCall
    \/ \E n \in Names : ManualToggle(n)
    \/ \E n \in Names : RemoveBegin(n)
    \/ RemoveRest
    \/ \E old \in Names, new \in Names : EditBegin(old, new)
    \/ EditRest
    \/ OnData

SpecSat == InitSat /\ [][NextSat]_vars

\* The v5.0 client (ntrip_checker_pro_v5_0.py): run() and stop() are those of
\* v5.2 except that the except clause goes from the user_stopped test
\* (lines 104-107) straight to the log entry and the error status
\* (lines 108-121); start_connection, manual_toggle_connection and
\* remove_caster_by_name are the same.  One caster on a network that does
\* not fail, so that every failed read is one that stop() caused.
V50Ops == 2         \* handlers the user invokes

\* v5.0 line 108: logging.exception
LogExceptionV50(c) ==
    /\ pc[c] = "exc2"
    /\ pc' = [pc EXCEPT ![c] = "exc3"]
    /\ UNCHANGED <<GuiVars, notes, conn, hist>>

LeavingV50(c) ==
    \/ RecvFail(c)
    \/ ExceptUser(c)
    \/ LogExceptionV50(c)
    \/ Finally(c)
    \/ EmitDisconnectSignal(c)

\* the steps of run() that report a failure of an established connection
Reporting(c) ==
    \/ EmitError(c)
    \/ RetryDecision(c)
    \/ EmitReconnecting(c)
    \/ Wait(c)

InitV50 == InitWith(<<"A">>, {<<0>>},
                    Budget(0, V50Ops, 1, 1..MaxChunk))

NextV50 ==
    \/ \E c \in Conns : Streaming(c) \/ LeavingV50(c) \/ Reporting(c)
    \/ StopCall
    \/ Lifecycle

SpecV50 == InitV50 /\ [][NextV50]_vars

\* Handshake: one caster whose responses to the request are drawn from
\* Headers, on a network that also fails, with a user who may stop it.
HandFails == 2      \* failures the network injects
HandOps   == 1      \* handlers the user invokes

InitHand ==
    InitStarted(<<"A">>, {<<0>>},
                [Budget(HandFails, HandOps, 1, {1})
                    EXCEPT !.headers = Headers])

NextHand ==
    \/ \E c \in Conns : Streaming(c) \/ Leaving(c) \/ Retrying(c)
    \/ StopCall
    \/ \E n \in Names : ManualToggle(n)

SpecHand == InitHand /\ [][NextHand]_vars

\* Classification: a client at line 353 after k failed attempts, handling an
\* exception whose text carries any combination of the keywords of
\* lines 353-357.
InitClass ==
    \E text \in SUBSET ErrorWords, k \in 0..MaxRetries :
        /\ casters = <<"A">>
        /\ env = Budget(0, 0, 1, {1})
        /\ clients = [n \in Names |-> IF n = "A" THEN 1 ELSE NoConn]
        /\ start_times = clients
        /\ rtcm_stats = [n \in Names |-> NoStats]
        /\ satellite_stats = [n \in Names |-> NoSets]
        /\ signal_stats = [n \in Names |-> NoSets]
        /\ gui = GuiIdle
        /\ notes = [n \in Names |-> 0]
        /\ nconn = 1
        /\ conn = [c \in Conns |->
                    IF c = 1
                    THEN [NewConn("A") EXCEPT !.sOpen = TRUE, !.err = text,
                                              !.reconnect_attempts = k]
                    ELSE NewConn("none")]
        /\ pc = [c \in Conns |-> IF c = 1 THEN "exc3" ELSE "new"]
        /\ hist = [c \in Conns |->
                    IF c = 1
                    THEN [NewHist EXCEPT
                             !.attempts = k + 1, !.fails = k + 1,
                             !.nErr = k, !.nRec = k, !.lastK = k,
                             !.lastSt = IF k = 0 THEN "none" ELSE "rec",
                             !.lastErr = IF k = 0 THEN "none"
                                         ELSE "Network error"]
                    ELSE NewHist]
        /\ decoded = [n \in Names |-> NoStats]
        /\ yielded = [n \in Names |-> {}]
        /\ stream = <<0>>

NextClass == \E c \in Conns : Reporting(c) \/ EmitDisconnected(c)

SpecClass == InitClass /\ [][NextClass]_vars

\* Decoding after an error: one caster whose client was started by __init__
\* and whose stream has a frame with a wrong checksum before a well-formed
\* one, with either kind of reader.  The thread runs whenever it can, the
\* caster keeps sending, and the event loop delivers every notification.
ResumeChunk == 4    \* bytes returned by one recv, at most

InitResume ==
    \E strict \in BOOLEAN :
        InitStarted(<<"A">>, Malformed,
                    [Budget(0, 0, 1, {ResumeChunk - 1, ResumeChunk})
                        EXCEPT !.strict = strict])

NextResume ==
    \/ \E c \in Conns : Streaming(c)
    \/ OnData

FairResume ==
    /\ \A c \in Conns : WF_vars(Streaming(c)) /\ SF_vars(RecvData(c))
    /\ WF_vars(OnData)

SpecResume == InitResume /\ [][NextResume]_vars /\ FairResume

\* Independence: two casters whose clients were started by __init__, each
\* sending one MSM frame; either the network fails once or the user invokes
\* one handler, while on_data decodes.
IndFails == 1       \* failures the network injects
IndOps   == 1       \* handlers the user invokes
IndInst  == 3       \* NTRIPClient instances created
IndChunk == 6       \* bytes returned by one recv (one frame)

InitInd ==
    \E budget \in {Budget(IndFails, 0, IndInst, {IndChunk}),
                   Budget(0, IndOps, IndInst, {IndChunk})} :
        InitStarted(<<"A", "B">>, {Frame(<<1074, 5, 1>>)}, budget)

NextInd ==
    \/ \E c \in Conns : Streaming(c) \/ Leaving(c) \/ Reporting(c)
    \/ \E c \in Conns : HandshakeReject(c)
    \/ StopCall
    \/ Lifecycle
    \/ \E old \in Names, new \in Names : EditBegin(old, new)
    \/ EditRest
    \/ OnData

SpecInd == InitInd /\ [][NextInd]_vars

\* Restart: one caster whose client was started by __init__.  Either the
\* network does not fail and the user invokes two handlers, or the client
\* has failed to connect three times and is about to make its last attempt
\* (lines 284-373 after three refused connects), the network fails once
\* more and the user invokes one handler.
ReFails == 1        \* failures the network injects after the first three
ReOps   == 2        \* handlers the user invokes
ReInst  == 2        \* NTRIPClient instances created

InitRetried(names, streams, budget) ==
    LET First(n) == CHOOSE i \in 1..Len(names) : names[i] = n
        Configured(n) == \E i \in 1..Len(names) : names[i] = n
    IN  /\ casters = names
        /\ env = budget
        /\ clients = [n \in Names |->
                         IF Configured(n) THEN First(n) ELSE NoConn]
        /\ start_times = clients
        /\ rtcm_stats = [n \in Names |-> NoStats]
        /\ satellite_stats = [n \in Names |-> NoSets]
        /\ signal_stats = [n \in Names |-> NoSets]
        /\ gui = GuiIdle
        /\ notes = [n \in Names |-> 0]
        /\ nconn = Len(names)
        /\ conn = [c \in Conns |->
                    IF c <= Len(names)
                    THEN [NewConn(names[c]) EXCEPT
                             !.reconnect_attempts = MaxRetries]
                    ELSE NewConn("none")]
        /\ pc = [c \in Conns |-> IF c <= Len(names) THEN "loop" ELSE "new"]
        /\ hist = [c \in Conns |->
                    IF c <= Len(names)
                    THEN [NewHist EXCEPT
                             !.attempts = MaxRetries, !.fails = MaxRetries,
                             !.nErr = MaxRetries, !.nRec = MaxRetries,
                             !.lastK = MaxRetries, !.lastSt = "rec",
                             !.lastErr = "Connection refused"]
                    ELSE NewHist]
        /\ decoded = [n \in Names |-> NoStats]
        /\ yielded = [n \in Names |-> {}]
        /\ stream \in streams

InitRe ==
    \/ InitRetried(<<"A">>, {<<0>>}, Budget(ReFails, ReOps - 1, ReInst, {1}))
    \/ InitStarted(<<"A">>, {<<0>>}, Budget(0, ReOps, ReInst, {1}))

NextRe ==
    \/ \E c \in Conns : Thread(c)
    \/ StopCall
    \/ Lifecycle
    \/ Restart

SpecRe == InitRe /\ [][NextRe]_vars

\* End of a run: one caster whose client was started by __init__, on a
\* network that fails, with a user who may stop or remove it, while on_data
\* decodes what was received.
EndFails == 4       \* failures the network injects
EndOps   == 1       \* handlers the user invokes

InitEnd == InitStarted(<<"A">>, {<<0>>}, Budget(EndFails, EndOps, 1, {1}))

NextEnd ==
    \/ \E c \in Conns : Thread(c)
    \/ StopCall
    \/ \E n \in Names : ManualToggle(n)
    \/ \E n \in Names : RemoveBegin(n)
    \/ RemoveRest
    \/ OnData

SpecEnd == InitEnd /\ [][NextEnd]_vars

\* extract_satellite_info as a function of the decoded frame: on_data has
\* taken one frame from the reader and is about to extract and merge it
\* (lines 1948-1967).  The frames are either plain ones of every message
\* type around the MSM range, or frames of two MSM types whose satellite
\* count, PRN fields and masks are chosen independently of each other; a PRN
\* field holding 0 stands for a value that fails the test of line 101.
TypeMargin == 2     \* message types below 1071 and above 1127
MaxSat     == 3     \* satellite count and number of PRN fields, at most
MaxMask    == 5     \* satellite mask DF394, at most

MsgTypes == (1071 - TypeMargin)..(1127 + TypeMargin) \cup {1005, 1230}

PrnLists ==
    UNION {[1..len -> {0, 4, 9, 17}] : len \in 0..MaxSat}

PlainFrames ==
    {[identity |-> t, NSat |-> Len(prn), PRN |-> prn, NSig |-> sig[1],
      DF394 |-> mask, DF395 |-> sig[2]] :
        t \in MsgTypes, prn \in {<<>>, <<4, 9, 17>>}, mask \in {0, MaxMask},
        sig \in {<<0, 5>>, <<2, 5>>}}

MsmFrames ==
    {[identity |-> t, NSat |-> nsat, PRN |-> prn, NSig |-> sig[1],
      DF394 |-> mask, DF395 |-> sig[2]] :
        t \in {1074, 1084}, nsat \in 0..MaxSat, prn \in PrnLists,
        mask \in 0..MaxMask, sig \in {<<0, 5>>, <<2, 5>>}}

InitExtract ==
    \E parsed \in PlainFrames \cup MsmFrames :
        /\ casters = <<"A">>
        /\ env = Budget(0, 0, 1, {1})
        /\ clients = [n \in Names |-> IF n = "A" THEN 1 ELSE NoConn]
        /\ start_times = clients
        /\ rtcm_stats = [n \in Names |-> NoStats]
        /\ satellite_stats = [n \in Names |-> NoSets]
        /\ signal_stats = [n \in Names |-> NoSets]
        /\ gui = [GuiIdle EXCEPT !.pc = "frame", !.n = "A", !.c = 1]
        /\ notes = [n \in Names |-> 0]
        /\ nconn = 1
        /\ conn = [c \in Conns |-> NewConn(IF c = 1 THEN "A" ELSE "none")]
        /\ pc = [c \in Conns |-> IF c = 1 THEN "loop" ELSE "new"]
        /\ hist = [c \in Conns |-> NewHist]
        /\ decoded = [n \in Names |-> NoStats]
        /\ yielded = [n \in Names |-> IF n = "A" THEN {parsed} ELSE {}]
        /\ stream = <<0>>

\* lines 1948-1967: extract the sets of the frame and merge them into the
\* statistics of the caster
ExtractFrame ==
    /\ gui.pc = "frame"
    /\ \E parsed \in yielded[gui.n] :
          LET info == extract_satellite_info(parsed)
          IN  /\ satellite_stats' = [satellite_stats EXCEPT ![gui.n] =
                                        MergeSets(@, info.satellites)]
              /\ signal_stats' = [signal_stats EXCEPT ![gui.n] =
                                        MergeSets(@, info.signals)]
    /\ gui' = Done("frame")
    /\ UNCHANGED <<casters, clients, start_times, rtcm_stats, nconn, stream,
                   env, Ghost, ThreadVars, conn, hist>>

NextExtract == ExtractFrame

SpecExtract == InitExtract /\ [][NextExtract]_vars

\* ------------------------------------------------------------- properties
\* a run that ended without stop() and without an accepted handshake
AllFailed(c) ==
    pc[c] = "done" /\ ~hist[c].stopCalled /\ hist[c].nOK = 0

\* C1 (as stated): a Connection whose every connect attempt fails and that
\* is never stopped reaches Disconnected after 3 failed attempts, with
\* exactly 3 "Reconnecting (k/3)" statuses, k = 1, 2, 3, and then one final
\* "Disconnected (...)" status.
C1_DisconnectedAfterThreeFailures ==
    \A c \in Conns :
        AllFailed(c) =>
            /\ hist[c].fails = 3
            /\ hist[c].nRec = 3
            /\ hist[c].nDiscSt = 1
            /\ hist[c].lastSt = "disc"

\* C1 (amended): such a Connection reaches Disconnected after 4 failed
\* attempts (the first attempt and 3 retries); while no handshake has been
\* accepted the k-th "Reconnecting" status carries k, there are exactly 3
\* of them, and the last status is the one "Disconnected (...)".
C1_DisconnectedAfterFourFailures ==
    \A c \in Conns :
        /\ hist[c].nOK = 0 => hist[c].lastK = hist[c].nRec
        /\ AllFailed(c) =>
              /\ hist[c].fails = 4
              /\ hist[c].attempts = 4
              /\ hist[c].nRec = 3
              /\ hist[c].nDiscSt = 1
              /\ hist[c].lastSt = "disc"
              /\ hist[c].nSig = 1

C1_Witness ==
    \E c \in Conns : AllFailed(c) /\ hist[c].nDiscSt = 1

\* C2: once stop(user_initiated=True) has been called on a Connection
\* whose thread was blocked in recv, the Connection emits no error status,
\* no "Reconnecting" status and no "Disconnected (<error>)" status and
\* opens no further socket.
C2_UserStopDuringRead ==
    [][\A c \in Conns :
          hist[c].stopAtRead =>
              /\ hist'[c].nErr = hist[c].nErr
              /\ hist'[c].nRec = hist[c].nRec
              /\ hist'[c].nDiscSt = hist[c].nDiscSt
              /\ hist'[c].attempts = hist[c].attempts]_vars

\* C3: once stop(user_initiated=True) has returned, the Connection emits
\* no error status, no "Reconnecting" status and no "Disconnected
\* (<error>)" status.
C3_UserStopNeverReported ==
    [][\A c \in Conns :
          hist[c].userStopRet =>
              /\ hist'[c].nErr = hist[c].nErr
              /\ hist'[c].nRec = hist[c].nRec
              /\ hist'[c].nDiscSt = hist[c].nDiscSt]_vars

\* C4: at every instant the buffer is the bytes appended so far minus the
\* bytes trimmed so far, and a trim leaves a suffix of the buffer that
\* holds, in order, every byte appended after the snapshot was taken.
C4_TrimExact ==
    /\ [](\A c \in Conns :
            conn[c].buffer =
                SubSeq(stream, hist[c].trimmed + 1, hist[c].recvd))
    /\ [][(gui.pc = "decode" /\ gui'.pc # "decode") =>
            \E k \in 0..Len(gui.buf) :
                conn'[gui.c].buffer = Drop(conn[gui.c].buffer, k)]_vars

C4_Witness ==
    \E c \in Conns : hist[c].raced /\ conn[c].buffer # <<>>

\* where the trailing incomplete frame of buf starts (Len(buf) if buf ends
\* at a frame boundary)
RECURSIVE TailStart(_, _)
TailStart(buf, pos) ==
    IF pos >= Len(buf) THEN Len(buf)
    ELSE IF buf[pos + 1] # Preamble THEN TailStart(buf, pos + 1)
    ELSE IF pos + 2 > Len(buf) THEN pos
    ELSE IF pos + 2 + buf[pos + 2] + 1 > Len(buf) THEN pos
    ELSE TailStart(buf, pos + 2 + buf[pos + 2] + 1)

IncompleteTail(buf) == Drop(buf, TailStart(buf, 0))

\* C5: when the snapshot of a decode pass over well-formed frames ends with
\* an incomplete frame, the bytes of that frame are at the head of the
\* buffer after the pass.
C5_IncompleteFrameKept ==
    [][(gui.pc = "decode" /\ gui'.pc # "decode" /\ stream \in WellFormed) =>
          IsPrefix(IncompleteTail(gui.buf), conn'[gui.c].buffer)]_vars

\* C6: once a stream of well-formed frames has been received in chunks and
\* every byte of it has been through a decode pass, the counts per identity
\* are those of one pass over the whole stream.
C6_ChunkingInvariant ==
    \A c \in Conns :
        ( /\ stream \in WellFormed
          /\ hist[c].recvd = Len(stream)
          /\ conn[c].buffer = <<>>
          /\ gui.pc = "idle"
          /\ clients[conn[c].name] = c )
        => rtcm_stats[conn[c].name] =
               CountMessages(NoStats, RTCMReader(stream, 0, <<>>, FALSE).ids)

\* C7: total_bytes is the sum of the sizes of the successful reads, the
\* buffer before any trim is their concatenation in read order, and
\* total_bytes never decreases and changes only in a step of the
\* Connection's own thread that completes a read.
C7_TotalBytes ==
    /\ [](\A c \in Conns :
            /\ conn[c].total_bytes = hist[c].recvd
            /\ hist[c].trimmed = 0 =>
                   conn[c].buffer = Take(stream, hist[c].recvd))
    /\ [][\A c \in Conns :
            /\ conn'[c].total_bytes >= conn[c].total_bytes
            /\ conn'[c].total_bytes # conn[c].total_bytes =>
                   pc[c] = "recv" /\ pc'[c] = "notify" /\ gui' = gui]_vars

C7_Witness ==
    \E c \in Conns :
        /\ conn[c].total_bytes >= 3
        /\ hist[c].trimmed = 0
        /\ conn[c].buffer = Take(stream, 3)

ActiveUnder(n) == {c \in Conns : Active(c) /\ conn[c].name = n}

C9_OneActivePerName ==
    \A n \in Names : Cardinality(ActiveUnder(n)) <= 1

\* C10: a call of start_connection, and an iteration of
\* connect_all_disconnected, for a name under which a running client is
\* registered changes nothing; for any other name it creates one client,
\* registers it under the name and starts it, and leaves every other
\* client and registration alone.
IsStartCall(n) ==
    \/ gui.pc = "idle" /\ gui'.tick # gui.tick /\ gui'.n = n
          /\ gui'.last \in {"start_noop", "start_new"}
    \/ gui.pc = "connall" /\ gui.todo # <<>> /\ Head(gui.todo) = n
          /\ gui'.todo = Tail(gui.todo)

C10_StartConnection ==
    [][\A n \in Names :
          IsStartCall(n) =>
              IF clients[n] # NoConn /\ conn[clients[n]].running
              THEN UNCHANGED <<clients, start_times, nconn, conn, pc, hist,
                               notes, rtcm_stats>>
              ELSE /\ nconn' = nconn + 1
                   /\ clients' = [clients EXCEPT ![n] = nconn']
                   /\ start_times' = [start_times EXCEPT ![n] = nconn']
                   /\ conn' = [conn EXCEPT ![nconn'] = NewConn(n)]
                   /\ pc' = [pc EXCEPT ![nconn'] = "loop"]]_vars

C10_Witness ==
    /\ gui.last = "start_noop"
    /\ clients[gui.n] # NoConn
    /\ conn[clients[gui.n]].total_bytes > 0

\* C11: when show_edit_dialog replaces the client registered under the
\* edited name, stop() has been called on that client unless its run has
\* already ended, whatever the client was doing.
C11_EditStopsOld ==
    [][(gui.pc = "edit_rest" /\ gui'.pc = "idle") =>
          \A c \in Conns :
              (clients[gui.n] = c /\ Active(c)) => hist[c].stopCalled]_vars

\* C12: once a read of the v5.2 client has failed on a socket that a
\* stop(user_initiated=False) closed, the Connection emits no error status,
\* no "Reconnecting" status and no "Disconnected (<error>)" status, does not
\* count a retry and opens no further socket; its run ends with exactly one
\* disconnect notification.
C12_LocalStopSuppressed ==
    /\ [](\A c \in Conns :
            (hist[c].stopFail /\ pc[c] = "done") => hist[c].nSig = 1)
    /\ [][\A c \in Conns :
            hist[c].stopFail =>
                /\ hist'[c].nErr = hist[c].nErr
                /\ hist'[c].nRec = hist[c].nRec
                /\ hist'[c].nDiscSt = hist[c].nDiscSt
                /\ hist'[c].attempts = hist[c].attempts
                /\ conn'[c].reconnect_attempts =
                       conn[c].reconnect_attempts]_vars

C12_Witness ==
    \E c \in Conns :
        /\ hist[c].stopFail
        /\ hist[c].stops # <<>>
        /\ pc[c] = "done"
        /\ hist[c].nSig = 1

\* C13: once a read of the v5.0 client has failed on a socket that a
\* stop(user_initiated=False) closed, the Connection emits no error status
\* and no "Reconnecting" status and does not count a retry.
C13_LocalStopSuppressedV50 ==
    [][\A c \in Conns :
          hist[c].stopFail =>
              /\ hist'[c].nErr = hist[c].nErr
              /\ hist'[c].nRec = hist[c].nRec
              /\ conn'[c].reconnect_attempts =
                     conn[c].reconnect_attempts]_vars

\* the GUI thread is inside a call stop(u) on a Connection whose last
\* returned stop() call had the same argument
SecondCall ==
    /\ gui.pc \in {"stop1", "stop2", "stop3", "stop4"}
    /\ hist[gui.c].stops # <<>>
    /\ hist[gui.c].stops[Len(hist[gui.c].stops)] = gui.u

\* C14: in every state of a Connection, stop(u) applied twice gives the
\* state that stop(u) applied once gives; and the statements of a second
\* call stop(u) leave the user-stopped flag and the stop request as the
\* first call set them and emit no event.
C14_StopIdempotent ==
    /\ [](\A c \in Conns, u \in BOOLEAN :
            stop(stop(conn[c], u), u) = stop(conn[c], u))
    /\ [][(SecondCall /\ gui' # gui) =>
            /\ conn'[gui.c].user_stopped = gui.u
            /\ conn'[gui.c].user_stopped = conn[gui.c].user_stopped
            /\ conn'[gui.c].stop_event
            /\ conn'[gui.c].stop_event = conn[gui.c].stop_event
            /\ notes' = notes
            /\ \A c \in Conns :
                  /\ hist'[c].nOK = hist[c].nOK
                  /\ hist'[c].nErr = hist[c].nErr
                  /\ hist'[c].nRec = hist[c].nRec
                  /\ hist'[c].nDiscSt = hist[c].nDiscSt
                  /\ hist'[c].nSig = hist[c].nSig]_vars

C14_Witness ==
    \E c \in Conns :
        /\ Len(hist[c].stops) = 2
        /\ hist[c].stops[1] = hist[c].stops[2]
        /\ hist[c].nOK > 0

\* C15: once stop() has been called on a Connection whose thread was in
\* the backoff wait, the Connection makes no further connect attempt.
C15_NoAttemptAfterStopInBackoff ==
    [][\A c \in Conns :
          hist[c].stopAtWait => hist'[c].attempts = hist[c].attempts]_vars

\* C16: when stop() returns, the socket the Connection's thread is using
\* is closed.
C16_StopClosesSocket ==
    [][(gui.pc = "stop4" /\ gui'.pc # "stop4") => ~conn'[gui.c].sOpen]_vars

\* C17: when remove_caster_by_name has removed a caster, no message stats,
\* satellite set or signal set is held under its name.
C17_RemoveClearsStats ==
    [][(gui.pc = "remove_rest" /\ gui'.pc # "remove_rest") =>
          /\ rtcm_stats'[gui.n] = NoStats
          /\ satellite_stats'[gui.n] = NoSets
          /\ signal_stats'[gui.n] = NoSets]_vars

\* C18: when show_edit_dialog has renamed a caster, the message stats, the
\* satellite sets and the signal sets kept under the old name are gone.
C18_RenameDiscardsStats ==
    [][(gui.pc = "edit_rest" /\ gui'.pc = "idle" /\ gui.n2 # gui.n) =>
          \A k \in Constellations :
              /\ \A i \in Ids : rtcm_stats'[gui.n][i] = 0
              /\ satellite_stats'[gui.n][k] = {}
              /\ signal_stats'[gui.n][k] = {}]_vars

\* C19: when manual_toggle_connection starts a new Connection under a name
\* that had a Connection before, the message stats and the satellite and
\* signal sets of that name are empty.
C19_RestartStartsEmpty ==
    [][\A n \in Names :
          ( /\ gui.pc = "idle"
            /\ gui'.last = "toggle_new"
            /\ gui'.n = n
            /\ nconn' = nconn + 1
            /\ clients[n] # NoConn )
          => /\ rtcm_stats'[n] = NoStats
             /\ \A k \in Constellations :
                   satellite_stats'[n][k] \cup signal_stats'[n][k] = {}]_vars

\* what the frames yielded so far for a name give for a constellation
SatsOf(n, k) ==
    UNION {extract_satellite_info(m).satellites[k] : m \in yielded[n]}

SigsOf(n, k) ==
    UNION {extract_satellite_info(m).signals[k] : m \in yielded[n]}

\* C20: for every (caster name, constellation) the satellite set and the
\* signal set are the union of the sets extracted from the frames decoded
\* so far for that name; no step removes an element from them; and merging
\* the sets extracted from an already decoded frame once more leaves them
\* unchanged.
C20_UnionGrowth ==
    /\ [](\A n \in Names, k \in Constellations :
            /\ satellite_stats[n][k] = SatsOf(n, k)
            /\ signal_stats[n][k] = SigsOf(n, k))
    /\ [](\A n \in Names : \A m \in yielded[n] :
            /\ MergeSets(satellite_stats[n],
                         extract_satellite_info(m).satellites)
                   = satellite_stats[n]
            /\ MergeSets(signal_stats[n], extract_satellite_info(m).signals)
                   = signal_stats[n])
    /\ [][\A n \in Names, k \in Constellations :
            /\ satellite_stats[n][k] \subseteq satellite_stats'[n][k]
            /\ signal_stats[n][k] \subseteq signal_stats'[n][k]]_vars

C20_Witness ==
    /\ satellite_stats["A"]["GPS"] = {1, 2, 3}
    /\ signal_stats["A"]["GPS"] = {"L1 C/A", "L1 P(Y)"}
    /\ rtcm_stats["A"][1074] > 2

\* one of the two markers occurs in the header at some offset
HasMarker(header) ==
    \/ \E i \in 0..(Len(header) - Len(ICY200OK)) :
           SubSeq(header, i + 1, i + Len(ICY200OK)) = ICY200OK
    \/ \E i \in 0..(Len(header) - Len(OK200)) :
           SubSeq(header, i + 1, i + Len(OK200)) = OK200

\* C21: the handshake is accepted if and only if the header read contains
\* "ICY 200 OK" or "200 OK"; every other header, the 401 response and the
\* empty read included, raises the rejection, which leaves the retry counter
\* alone until it is reported; a rejection that no stop() has overtaken
\* reaches the error status, and that status is "Authentication failed" and
\* adds one to the retry counter.
C21_HandshakeAcceptance ==
    /\ [][\A c \in Conns :
            pc[c] = "handshake" /\ pc'[c] # "handshake" =>
                IF conn'[c].err = TimedOut THEN pc'[c] = "except"
                ELSE /\ pc'[c] = "acc1" <=> HasMarker(conn'[c].header)
                     /\ pc'[c] # "acc1" =>
                            /\ pc'[c] = "except"
                            /\ conn'[c].err = Rejected
                            /\ conn'[c].reconnect_attempts
                                   = conn[c].reconnect_attempts]_vars
    /\ [][\A c \in Conns :
            /\ pc[c] \in {"except", "exc2"} /\ pc'[c] # pc[c]
            /\ conn[c].err = Rejected /\ ~hist[c].stopCalled
            => pc'[c] \in {"exc2", "exc3"}]_vars
    /\ [][\A c \in Conns :
            pc[c] = "exc3" /\ pc'[c] # "exc3" /\ conn[c].err = Rejected =>
                /\ hist'[c].lastSt = "err"
                /\ hist'[c].lastErr = "Authentication failed"
                /\ hist'[c].nErr = hist[c].nErr + 1
                /\ conn'[c].reconnect_attempts
                       = conn[c].reconnect_attempts + 1]_vars

\* an empty read was rejected, reported and counted
C21_Witness ==
    \E c \in Conns :
        /\ pc[c] = "exc4"
        /\ conn[c].header = EmptyRead /\ conn[c].err = Rejected
        /\ hist[c].lastErr = "Authentication failed"
        /\ conn[c].reconnect_attempts = 1

\* the precedence of lines 353-360 over the three features of a text
ClassOf(text) ==
    LET auth    == \E w \in {"rejected", "401", "unauthorized"} : w \in text
        timeout == \E w \in {"timeout", "timed out"} : w \in text
        refused == "refused" \in text
    IN  CASE auth -> "Authentication failed"
          [] ~auth /\ timeout -> "Connection timeout"
          [] ~auth /\ ~timeout /\ refused -> "Connection refused"
          [] ~auth /\ ~timeout /\ ~refused -> "Network error"

\* C22: the error status reports the class of the failure text by strict
\* precedence: rejected/401/unauthorized, else timeout/timed out, else
\* refused, else "Network error", for every combination of the keywords.
C22_ClassificationPrecedence ==
    [][\A c \in Conns :
          pc[c] = "exc3" /\ pc'[c] = "exc4" =>
              /\ hist'[c].lastSt = "err"
              /\ hist'[c].lastErr = ClassOf(conn[c].err)]_vars

\* a text with a timeout keyword and "refused" was reported as a timeout
C22_Witness ==
    \E c \in Conns :
        /\ pc[c] = "exc4"
        /\ conn[c].err = {"timed out", "refused"}
        /\ hist[c].lastErr = "Connection timeout"

\* C23: a Connection whose handshake is rejected on every attempt emits
\* "Reconnecting (1/3)", "(2/3)", "(3/3)" and then the final status
\* "Disconnected (Authentication failed)"; in every run the reason of the
\* final status is the class of the last failure, the one whose error
\* status was emitted last.
C23_RejectedRetryBudget ==
    /\ [](\A c \in Conns :
            AllFailed(c) /\ hist[c].rejects = hist[c].fails =>
                /\ hist[c].nRec = 3 /\ hist[c].lastK = 3
                /\ hist[c].nErr = 4
                /\ hist[c].lastErr = "Authentication failed"
                /\ hist[c].nDiscSt = 1 /\ hist[c].lastSt = "disc"
                /\ hist[c].discErr = "Authentication failed")
    /\ [][\A c \in Conns :
            hist'[c].nRec # hist[c].nRec /\ hist[c].nOK = 0 =>
                /\ hist'[c].nRec = hist[c].nRec + 1
                /\ hist'[c].lastK = hist'[c].nRec]_vars
    /\ [][\A c \in Conns :
            pc[c] = "emitdown" /\ pc'[c] # "emitdown" =>
                /\ hist'[c].lastSt = "disc"
                /\ hist'[c].nDiscSt = hist[c].nDiscSt + 1
                /\ hist'[c].discErr = ClassOf(conn[c].err)
                /\ hist'[c].discErr = hist[c].lastErr]_vars

\* a run of four rejected handshakes has ended
C23_Witness ==
    \E c \in Conns :
        /\ AllFailed(c)
        /\ hist[c].rejects = 4 /\ hist[c].fails = 4
        /\ hist[c].discErr = "Authentication failed"

\* C24: a successful read appends its bytes to the buffer and adds their
\* length to total_bytes in one locked step that emits nothing; the
\* notification follows as the thread's next step, is the only way a
\* notification is emitted, adds exactly one to the notifications queued
\* for the caster's name and changes no Connection; and the snapshot a
\* decode pass takes is the buffer of that instant, which is the received
\* bytes that no pass has removed.
C24_AppendThenNotify ==
    /\ [][\A c \in Conns :
            pc[c] = "recv" /\ pc'[c] = "notify" =>
                /\ \E k \in 1..(Len(stream) - hist[c].recvd) :
                      LET data == SubSeq(stream, hist[c].recvd + 1,
                                         hist[c].recvd + k)
                      IN  /\ conn'[c].buffer = conn[c].buffer \o data
                          /\ conn'[c].total_bytes
                                 = conn[c].total_bytes + Len(data)
                          /\ hist'[c].recvd = hist[c].recvd + Len(data)
                /\ notes' = notes]_vars
    /\ [][\A c \in Conns :
            pc[c] = "notify" /\ pc'[c] # "notify" =>
                /\ pc'[c] = "while"
                /\ notes' = [notes EXCEPT ![conn[c].name] = @ + 1]
                /\ conn' = conn]_vars
    /\ [][\A n \in Names :
            notes'[n] > notes[n] =>
                \E c \in Conns : /\ conn[c].name = n
                                 /\ pc[c] = "notify" /\ pc'[c] = "while"]_vars
    /\ [][gui'.pc = "decode" /\ gui.pc # "decode" =>
            /\ gui'.buf = conn[gui'.c].buffer
            /\ gui'.buf = SubSeq(stream, hist[gui'.c].trimmed + 1,
                                 hist[gui'.c].recvd)]_vars
    /\ [](\A c \in Conns :
            /\ conn[c].total_bytes = hist[c].recvd
            /\ conn[c].buffer
                   = SubSeq(stream, hist[c].trimmed + 1, hist[c].recvd))

\* a snapshot holds the bytes of a read whose notification is still to be
\* emitted
C24_Witness ==
    \E c \in Conns :
        /\ gui.pc = "decode" /\ gui.c = c
        /\ pc[c] = "notify"
        /\ gui.buf = conn[c].buffer
        /\ Len(gui.buf) >= 2

\* the statuses and notifications a Connection has emitted
Emitted(c) ==
    <<hist[c].nOK, hist[c].nErr, hist[c].nRec, hist[c].nDiscSt,
      hist[c].nSig, hist[c].lastSt>>

\* every run that has ended emitted disconnected(name) exactly once, no run
\* emits it twice, and the Connection that emitted it takes no further step
\* and emits nothing more
DisconnectIsLast ==
    /\ [](\A c \in Conns :
            /\ hist[c].nSig <= 1
            /\ hist[c].nSig = 1 <=> pc[c] = "done")
    /\ [][\A c \in Conns :
            hist[c].nSig = 1 =>
                /\ pc'[c] = pc[c]
                /\ Emitted(c)' = Emitted(c)
                /\ \A n \in Names : notes'[n] <= notes[n]]_vars

\* C25 (as stated): every run emits disconnected(name) exactly once, as its
\* last event, on every exit path, and after it the Connection's retry
\* counter and buffer are not changed any more.
C25_FrozenAfterDisconnect ==
    /\ DisconnectIsLast
    /\ [][\A c \in Conns :
            hist[c].nSig = 1 =>
                /\ conn'[c].reconnect_attempts = conn[c].reconnect_attempts
                /\ conn'[c].buffer = conn[c].buffer]_vars

\* C25 (amended): every run emits disconnected(name) exactly once, as its
\* last event, on every exit path; after it the retry counter and
\* total_bytes are not changed and nothing is appended to the buffer, whose
\* front is still removed by the decode passes of on_data.
C25_DisconnectThenOnlyTrims ==
    /\ DisconnectIsLast
    /\ [][\A c \in Conns :
            hist[c].nSig = 1 =>
                /\ conn'[c].reconnect_attempts = conn[c].reconnect_attempts
                /\ conn'[c].total_bytes = conn[c].total_bytes
                /\ \/ conn'[c].buffer = conn[c].buffer
                   \/ /\ gui.pc = "decode" /\ gui.c = c
                      /\ \E k \in 1..Len(conn[c].buffer) :
                             conn'[c].buffer = Drop(conn[c].buffer, k)]_vars

\* a decode pass has emptied the buffer of a Connection whose run had ended
\* with the retries exhausted
C25_Witness ==
    \E c \in Conns :
        /\ pc[c] = "done" /\ hist[c].nSig = 1
        /\ hist[c].nDiscSt = 1 /\ ~hist[c].stopCalled
        /\ hist[c].recvd = 1 /\ hist[c].trimmed = 1
        /\ conn[c].buffer = <<>>
        /\ notes[conn[c].name] = 0

\* C26: a decode pass that ends in the except clause of on_data changes no
\* Connection (running flag, socket, retry counter, total_bytes and buffer
\* are as before, so the pass removed no bytes), emits no status and no
\* notification, leaves every thread where it is, and after it every
\* thread that has not ended can take its next step.
C26_DecodeErrorIsLocal ==
    /\ [][gui.pc = "decode" /\ gui'.last = "on_data_error" =>
            /\ conn' = conn
            /\ hist' = hist
            /\ pc' = pc
            /\ notes' = notes
            /\ clients' = clients]_vars
    /\ [](gui.last = "on_data_error" =>
            \A c \in Conns : Active(c) => ENABLED Streaming(c))

\* after a pass that raised, the thread appended the rest of the stream to
\* the bytes the pass left in the buffer
C26_Witness ==
    \E c \in Conns :
        /\ gui.last = "on_data_error"
        /\ conn[c].running
        /\ hist[c].recvd = Len(stream) /\ hist[c].trimmed <= 1
        /\ Len(conn[c].buffer) >= Len(stream) - 1
        /\ notes[conn[c].name] = 0

\* C27: after a decode pass has been abandoned by a decode error, the
\* well-formed frame that follows the malformed one in the stream is
\* eventually decoded and counted.
C27_DecodingResumes ==
    gui.last = "on_data_error" ~> rtcm_stats["A"][1084] >= 1

\* a "Reconnecting (k/3)" status carries the retry counter, which is then
\* between 1 and 3; every connect attempt but the first follows a
\* "Reconnecting" status of its own; the retry counter stays within 0..4
ReconnectingBounds ==
    /\ [][\A c \in Conns :
            hist'[c].nRec # hist[c].nRec =>
                /\ hist'[c].nRec = hist[c].nRec + 1
                /\ hist'[c].lastK = conn[c].reconnect_attempts
                /\ hist'[c].lastK \in 1..MaxRetries]_vars
    /\ [](\A c \in Conns :
            /\ hist[c].attempts <= hist[c].nRec + 1
            /\ conn[c].reconnect_attempts \in 0..(MaxRetries + 1))

\* C28: a "Reconnecting (k/3)" status is emitted only with 1 <= k <= 3 and
\* only when no user-initiated stop has been recorded in the Connection,
\* each one is followed by at most one new connect attempt, and the retry
\* counter stays within 0..4.
C28_ReconnectingGuarded ==
    /\ ReconnectingBounds
    /\ [][\A c \in Conns :
            hist'[c].nRec # hist[c].nRec => ~conn[c].user_stopped]_vars

\* the step changes the state of a Connection of caster n that exists, or
\* the stats kept under n
Touched(n) ==
    \/ rtcm_stats'[n] # rtcm_stats[n]
    \/ satellite_stats'[n] # satellite_stats[n]
    \/ signal_stats'[n] # signal_stats[n]
    \/ \E c \in Conns : /\ pc[c] # "new" /\ conn[c].name = n
                         /\ (conn'[c] # conn[c] \/ pc'[c] # pc[c])

\* the step is a step of a handler invoked for caster n, of a stop() or a
\* decode pass that such a handler runs, or of the thread of a Connection
\* of n
StepOn(n) ==
    \/ gui' # gui /\ n = (IF gui.pc = "idle" THEN gui'.n ELSE gui.n)
    \/ gui' = gui /\ \E c \in Conns : /\ pc[c] # "new" /\ conn[c].name = n
                                       /\ pc'[c] # pc[c]

\* C29: a step changes the Connection state (every field of the client, its
\* position in run() included) and the message, satellite and signal stats
\* of caster B only if it is a step on B, so every operation or event on
\* another caster A leaves them unchanged; and in every reachable state
\* every thread that has not ended can take its next step.
C29_CastersIndependent ==
    /\ [][\A b \in Names : Touched(b) => StepOn(b)]_vars
    /\ [](\A c \in Conns : Active(c) => ENABLED Thread(c))

\* caster A was edited after both casters had been decoded, and the stats
\* of B are still there while B streams
C29_Witness ==
    /\ gui.last = "edit"
    /\ rtcm_stats["A"] = NoStats /\ satellite_stats["A"]["GPS"] # {}
    /\ rtcm_stats["B"][1074] = 1 /\ satellite_stats["B"]["GPS"] # {}
    /\ clients["B"] # NoConn /\ conn[clients["B"]].running

\* a call of start_connection, an iteration of connect_all_disconnected or
\* a call of manual_toggle_connection for the name n
IsConnectCall(n) ==
    \/ IsStartCall(n)
    \/ gui.pc = "idle" /\ gui'.n = n
          /\ (gui'.last = "toggle_new"
                \/ (gui'.pc = "stop1" /\ gui'.k = "toggle"))

\* C30: a Connection whose run has ended, by exhausted retries, user stop
\* or any other stop, has its running flag false; so a start_connection,
\* an iteration of connect_all_disconnected or a manual connect for a name
\* whose registered Connection has ended creates a new Connection, registers
\* it and starts it at the loop condition, which holds: retry counter 0,
\* empty buffer, total_bytes 0, no stop recorded.
C30_RestartAfterTermination ==
    /\ [](\A c \in Conns : pc[c] = "done" => ~conn[c].running)
    /\ [][\A n \in Names :
            /\ IsConnectCall(n)
            /\ clients[n] # NoConn /\ pc[clients[n]] = "done"
            => /\ nconn' = nconn + 1
               /\ clients'[n] = nconn'
               /\ pc'[nconn'] = "loop"
               /\ conn'[nconn'].name = n
               /\ conn'[nconn'].reconnect_attempts = 0
               /\ conn'[nconn'].buffer = <<>>
               /\ conn'[nconn'].total_bytes = 0
               /\ ~conn'[nconn'].running
               /\ LoopCond(conn'[nconn'])]_vars

\* start_connection has replaced a Connection that had ended with its
\* retries exhausted
C30_Witness ==
    \E c \in Conns :
        /\ pc[c] = "done" /\ hist[c].nDiscSt = 1
        /\ conn[c].reconnect_attempts = MaxRetries + 1
        /\ gui.last = "start_new"
        /\ clients[gui.n] = c + 1
        /\ pc[c + 1] = "loop"

\* the constellation the message types 1071..1127 belong to, ten types each
ConstellationOf(t) ==
    LET index == (t - 1071) \div 10
    IN  CASE index = 0 -> "GPS"
          [] index = 1 -> "GLONASS"
          [] index = 2 -> "Galileo"
          [] index = 3 -> "SBAS"
          [] index = 4 -> "QZSS"
          [] index = 5 -> "BeiDou"

\* C31: a frame of a type t in 1071..1127 is attributed to the constellation
\* with index (t - 1071) div 10 (0 GPS, 1 GLONASS, 2 Galileo, 3 SBAS, 4 QZSS,
\* 5 BeiDou) and to no other: the sets of every other constellation are
\* empty, and the satellites of a frame with a satellite mask are under that
\* constellation.  For every other type all sets are empty.
C31_ConstellationByType ==
    gui.last = "frame" =>
        \A parsed \in yielded["A"] :
            LET t == parsed.identity
                sats == satellite_stats["A"]
                sigs == signal_stats["A"]
            IN  IF t \in 1071..1127
                THEN /\ \A k \in Constellations \ {ConstellationOf(t)} :
                            sats[k] = {} /\ sigs[k] = {}
                     /\ parsed.DF394 > 0 => sats[ConstellationOf(t)] # {}
                     /\ parsed.NSig > 0 /\ parsed.DF395 > 0
                            => sigs[ConstellationOf(t)] # {}
                ELSE \A k \in Constellations : sats[k] = {} /\ sigs[k] = {}

\* a frame of the last type of the range, 1127, has been extracted and its
\* satellites are under BeiDou
C31_Witness ==
    /\ gui.last = "frame"
    /\ \E parsed \in yielded["A"] : parsed.identity = 1127
    /\ satellite_stats["A"]["BeiDou"] = {4, 9, 17}

\* the PRN fields 1..NSat the frame has
PrnFields(parsed) == {i \in 1..parsed.NSat : i <= Len(parsed.PRN)}

\* "bit i-1 of the mask is set", for the masks below 2^31 of the frames
MaskBit(mask, i) == i <= 31 /\ (mask \div 2^(i - 1)) % 2 = 1

C33_NoConnectAfterStopReturned ==
    [][\A c \in Conns :
          hist[c].stops # <<>> =>
              /\ hist'[c].attempts = hist[c].attempts
              /\ ~(pc[c] = "connect" /\ pc'[c] # "connect")]_vars

\* the frames with identity i that the caster sends
FramesSent(i) == CountOf(RTCMReader(stream, 0, <<>>, FALSE).ids, i)

\* C34: a decode pass that incremented a count removes bytes from the
\* buffer it took its snapshot of, whether or not it ended in a decode
\* error, and no identity is counted more often than frames with that
\* identity were sent.
C34_CountedAtMostOnce ==
    /\ [][gui.pc = "decode" /\ rtcm_stats' # rtcm_stats =>
            Len(conn'[gui.c].buffer) < Len(conn[gui.c].buffer)]_vars
    /\ [](\A n \in Names, i \in Ids : rtcm_stats[n][i] <= FramesSent(i))

\* C35: once stop() has been called on a Connection, no step sets its
\* running flag and it emits no "Connection OK" status.
C35_NoRunningAfterStop ==
    [][\A c \in Conns :
          hist[c].stopCalled =>
              /\ conn'[c].running => conn[c].running
              /\ hist'[c].nOK = hist[c].nOK]_vars

\* C36: when a Connection starts a connect attempt, the socket of its
\* previous attempt has been closed, and when its run has ended the socket
\* of its last attempt has been closed.
C36_EverySocketClosed ==
    /\ [][\A c \in Conns :
            pc[c] = "loop" /\ pc'[c] = "connect" => ~conn[c].sOpen]_vars
    /\ [](\A c \in Conns : pc[c] = "done" => ~conn[c].sOpen)

\* C37: every "Connection OK" is emitted with the retry counter at 0.  On
\* a Connection that is not being stopped, the handling of a failure of an
\* established stream (self.socket is the socket of this attempt) goes on
\* to the "Reconnecting" status, and that status is "(1/3)"; a final
\* "Disconnected" status is emitted only for a failed connect or handshake
\* that brought the counter to 4, so that accepted handshakes alternating
\* with stream losses never end the run.
C37_RetryBudgetIsConsecutive ==
    /\ [][\A c \in Conns :
            hist'[c].nOK # hist[c].nOK =>
                conn'[c].reconnect_attempts = 0]_vars
    /\ [][\A c \in Conns :
            conn[c].socket = "cur" /\ ~hist'[c].stopCalled =>
                /\ (pc[c] \in {"except", "exc2", "exc3", "exc4"}
                        /\ pc'[c] # pc[c])
                       => pc'[c] \in {"exc2", "exc3", "exc4", "emitrec"}
                /\ hist'[c].nRec # hist[c].nRec => hist'[c].lastK = 1]_vars
    /\ [][\A c \in Conns :
            hist'[c].nDiscSt # hist[c].nDiscSt /\ ~hist[c].stopCalled =>
                /\ conn[c].reconnect_attempts = MaxRetries + 1
                /\ conn[c].socket # "cur"]_vars

\* a Connection that was never stopped has lost its stream four times, one
\* time more than the budget, and has emitted "Reconnecting (1/3)" after
\* each loss
C37_Witness ==
    \E c \in Conns :
        /\ ~hist[c].stopCalled
        /\ hist[c].nOK = MaxRetries + 1
        /\ hist[c].nRec = MaxRetries + 1 /\ hist[c].lastK = 1
        /\ hist[c].nErr = MaxRetries + 1
        /\ hist[c].nDiscSt = 0
        /\ pc[c] = "wait"

\* C38: a Connection's running flag is true only while its thread is
\* between line 301 and the end of its read loop: the handshake of the
\* current socket was accepted and the read loop has not been left.  It is
\* false at the loop condition, in connect and handshake, in the handling
\* of a failure, in the wait before a reconnect and after the run ended.
C38_RunningOnlyWhileStreaming ==
    \A c \in Conns :
        conn[c].running => pc[c] \in {"acc3", "while", "recv", "notify"}

\* a decode pass holds a snapshot of c's buffer that includes the byte at
\* position r of the stream, or a pass has removed that byte from the buffer
\* after its snapshot included it
InSnapshot(c, r) ==
    \/ hist[c].trimmed >= r
    \/ /\ gui.pc = "decode" /\ gui.c = c
       /\ hist[c].trimmed + Len(gui.buf) >= r

\* C39: for the Connection registered under "A", which stays registered,
\* whenever the thread has appended bytes and is about to emit the
\* notification, a decode pass eventually takes a snapshot that includes
\* the last byte appended by then, and with it every byte appended before.
C39_NoLostWakeup ==
    (pc[1] = "notify" /\ clients["A"] = 1)
        ~> (clients["A"] = 1 /\ InSnapshot(1, hist[1].recvd))

\* a decode pass holds a snapshot that ends with the last byte of the
\* stream, after an earlier pass removed bytes from the buffer
C39_Witness ==
    /\ clients["A"] = 1
    /\ gui.pc = "decode" /\ gui.c = 1
    /\ hist[1].recvd = Len(stream)
    /\ hist[1].trimmed > 0
    /\ hist[1].trimmed + Len(gui.buf) = Len(stream)

====
